---- MODULE Spec2Model ----
(***************************************************************************)
(* Tree-of-Thought server (src/mcps/tot-mcp/src/tot_mcp/server.py).        *)
(*                                                                         *)
(* One thought tree is modelled: the module-level cache entry of the tree  *)
(* (_trees_cache[tree_id]), its JSON record on disk, and in result the     *)
(* last tool call: its name, the kind of value it returned and its main    *)
(* argument.  Thought ids are 1, 2, 3, ... in creation order (the code     *)
(* draws them from uuid4, taken as fresh each time), so the id order is    *)
(* also the insertion order of the tree.thoughts dict.  observed is a      *)
(* history variable: the largest total_score an evaluation has assigned.   *)
(*                                                                         *)
(* Numbers.  Scores are integers.  Weights are kept in halves (2 is the    *)
(* weight 1.0).  total_score and best_score_seen are kept multiplied by    *)
(* Scale, which every total weight the model can form divides, so the      *)
(* weighted mean is exact.  Free text that no operation reads (problem,    *)
(* rationale, timestamps, thinking level) is left out of the records.      *)
(*                                                                         *)
(* steps counts the work done: one for each tool call and one more for     *)
(* each further entry of the list a call is given.  Behaviours are         *)
(* explored up to MaxSteps.                                                *)
(*                                                                         *)
(* fault is the state of the data directory: "none" when a write goes      *)
(* through, "open" when open(path, "w") raises and leaves the file as it   *)
(* was, "dump" when the file is opened, hence truncated, and json.dump     *)
(* raises before the record is complete.                                   *)
(*                                                                         *)
(* Spec starts from the empty store.  SelectSpec, GreedySpec, DiverseSpec  *)
(* and EvaluateSpec start from a tree that create_tree, generate_thoughts, *)
(* select_path and evaluate_thoughts have built, and follow it for the     *)
(* last one or two calls; CreateSpec creates trees of any max_depth and    *)
(* strategy name.  DepthSpec evaluates the thoughts of a path of depth      *)
(* three, PathSpec asks for the best path, WeightSpec sets weights,        *)
(* DeleteSpec deletes and lists; FaultSpec adds failing writes, restarts   *)
(* and a crash inside a write to the calls on one tree.  ScoreSpec         *)
(* evaluates under the weights a record holds, RestartSpec restarts the    *)
(* server between the calls, ShapeSpec follows parents, children and       *)
(* depths, BacktrackSpec and ExhaustSpec backtrack (to the siblings, to    *)
(* the root), DeepSpec evaluates a path of depth six, BatchSpec splits a   *)
(* batch of evaluations over calls, FrontierSpec selects where no          *)
(* candidate is left.                                                      *)
(***************************************************************************)
EXTENDS Integers, Sequences, FiniteSets, TLC

VARIABLES cache, disk, result, observed, steps, fault

vars == <<cache, disk, result, observed, steps, fault>>

\* ---------------------------------------------------------------- bounds
MaxThoughts == 3
MaxBatch == 2
MaxSteps == 5
MaxSiblings == 3

\* ------------------------------------------------------------- constants
Scale == 12
One == 2
DefaultDiversityThreshold == 3
DefaultBeamWidth == 3

TreeId == "t1"
NoId == 0
UnknownId == 99

PENDING == "PENDING"
PROMISING == "PROMISING"
UNCERTAIN == "UNCERTAIN"
FAILED == "FAILED"
SELECTED == "SELECTED"
COMPLETE == "COMPLETE"

ThoughtStatus == {PENDING, PROMISING, UNCERTAIN, FAILED, SELECTED, COMPLETE}

StatusValue(s) ==
    CASE s = PENDING -> "pending"
      [] s = PROMISING -> "promising"
      [] s = UNCERTAIN -> "uncertain"
      [] s = FAILED -> "failed"
      [] s = SELECTED -> "selected"
      [] s = COMPLETE -> "complete"

StatusOfValue(v) == CHOOSE s \in ThoughtStatus : StatusValue(s) = v

EmptyDict == [k \in {} |-> 0]

\* ------------------------------------------------------ inputs of callers
CriteriaGiven == <<"feasibility", "risk">>
Strategies == {"greedy", "beam", "diverse", "sampling"}
MaxDepths == {1}
Contents == {"use cache"}
Reasons == {"dead end", "too risky"}
Expansions == {"details"}
BeamWidths == {-1, 0, 1, DefaultBeamWidth}
ScoreMaps ==
    { EmptyDict,
      [feasibility |-> 9, risk |-> 9],
      [feasibility |-> 9, risk |-> 2],
      [feasibility |-> 6, risk |-> 4],
      [risk |-> -2] }
WeightMaps ==
    { [risk |-> 0],
      [feasibility |-> 1, risk |-> 2],
      [risk |-> 3],
      [speed |-> 1] }

\* ---------------------------------------------------------------- helpers
Range(f) == {f[k] : k \in DOMAIN f}

SetMin(S) == CHOOSE m \in S : \A n \in S : m <= n

SetMax(S) == CHOOSE m \in S : \A n \in S : m >= n

RECURSIVE SumOver(_, _)
SumOver(f, D) ==
    IF D = {} THEN 0
    ELSE LET k == CHOOSE k \in D : TRUE
         IN f[k] + SumOver(f, D \ {k})

\* dict.update(other)
DictUpdate(d, other) ==
    [k \in DOMAIN d \cup DOMAIN other |->
        IF k \in DOMAIN other THEN other[k] ELSE d[k]]

\* content.lower().split() as a set
Words(content) ==
    CASE content = "use cache" -> {"use", "cache"}
      [] content = "use cache layer" -> {"use", "cache", "layer"}
      [] content = "use redis cache layer" -> {"use", "redis", "cache", "layer"}
      [] content = "Use redis cache layer now" ->
             {"use", "redis", "cache", "layer", "now"}
      [] content = "shard db" -> {"shard", "db"}
      [] content = "" -> {}
      [] OTHER -> {content}

\* ------------------------------------------------------------ persistence
ThoughtToDict(t) ==
    [id |-> t.id, content |-> t.content, parent_id |-> t.parent_id,
     children |-> t.children, status |-> StatusValue(t.status),
     scores |-> t.scores, total_score |-> t.total_score, depth |-> t.depth,
     metadata |-> t.metadata]

TreeToDict(tree) ==
    [root_id |-> tree.root_id, current_id |-> tree.current_id,
     thoughts |-> [i \in DOMAIN tree.thoughts |-> ThoughtToDict(tree.thoughts[i])],
     criteria |-> tree.criteria, criteria_weights |-> tree.criteria_weights,
     strategy |-> tree.strategy, max_depth |-> tree.max_depth,
     best_score_seen |-> tree.best_score_seen,
     diversity_threshold |-> tree.diversity_threshold]

DictToThought(d) ==
    [id |-> d.id, content |-> d.content, parent_id |-> d.parent_id,
     children |-> d.children, status |-> StatusOfValue(d.status),
     scores |-> d.scores, total_score |-> d.total_score, depth |-> d.depth,
     metadata |-> d.metadata]

DictToTree(data) ==
    [root_id |-> data.root_id, current_id |-> data.current_id,
     thoughts |-> [i \in DOMAIN data.thoughts |-> DictToThought(data.thoughts[i])],
     criteria |-> data.criteria, criteria_weights |-> data.criteria_weights,
     strategy |-> data.strategy, max_depth |-> data.max_depth,
     best_score_seen |-> data.best_score_seen,
     diversity_threshold |-> data.diversity_threshold]

\* what is left of a file that was opened for writing and not completed
Truncated == [truncated |-> TRUE]

\* json.load and _dict_to_tree go through on the record
Loadable(data) == "root_id" \in DOMAIN data

\* _get_tree finds the tree: it is cached, or its record exists and loads
TreeExists ==
    \/ TreeId \in DOMAIN cache
    \/ TreeId \in DOMAIN disk /\ Loadable(disk[TreeId])

\* _get_tree: the cached tree, else the tree loaded from its record
GetTree ==
    IF TreeId \in DOMAIN cache THEN cache[TreeId] ELSE DictToTree(disk[TreeId])

\* _get_tree leaves the tree it returned in the cache
Cached(tree) == cache' = DictUpdate(cache, [t1 |-> tree])

\* _save_tree: the tree goes to the cache, then its record replaces the
\* file; an exception of the write is logged and not raised
SaveTree(tree) ==
    /\ cache' = DictUpdate(cache, [t1 |-> tree])
    /\ disk' = CASE fault = "none" -> DictUpdate(disk, [t1 |-> TreeToDict(tree)])
                 [] fault = "open" -> disk
                 [] fault = "dump" -> DictUpdate(disk, [t1 |-> Truncated])

Init ==
    /\ cache = EmptyDict
    /\ disk = EmptyDict
    /\ result = [op |-> "none", kind |-> "none", arg |-> NoId]
    /\ observed = 0
    /\ steps = 0
    /\ fault = "none"

\* a tool call given a list of n entries (n = 1 for a call without a list);
\* no tool call changes the state of the data directory
Step(n) ==
    LET cost == IF n > 1 THEN n ELSE 1
    IN steps + cost <= MaxSteps /\ steps' = steps + cost /\ fault' = fault

\* a tool call without a list
Call == Step(1)

\* ------------------------------------------------------------ create_tree
NewRoot ==
    [id |-> 1, content |-> "Problem", parent_id |-> NoId, children |-> <<>>,
     status |-> SELECTED, scores |-> EmptyDict, total_score |-> 0, depth |-> 0,
     metadata |-> EmptyDict]

NewTree(criteria, strategy, max_depth) ==
    [root_id |-> 1, current_id |-> 1, thoughts |-> <<NewRoot>>,
     criteria |-> criteria,
     criteria_weights |-> [c \in Range(criteria) |-> One],
     strategy |-> strategy, max_depth |-> max_depth,
     best_score_seen |-> 0,
     diversity_threshold |-> DefaultDiversityThreshold]

\* the id create_tree draws is new: no cached tree and no file has it
Fresh == TreeId \notin DOMAIN cache /\ TreeId \notin DOMAIN disk

CreateTree(strategy, max_depth) ==
    /\ Call
    /\ Fresh
    /\ SaveTree(NewTree(CriteriaGiven, strategy, max_depth))
    /\ result' = [op |-> "create_tree", kind |-> "ok", arg |-> max_depth]
    /\ observed' = 0

\* tree with thought i replaced by t
WithThought(tree, i, t) ==
    [tree EXCEPT !.thoughts = [@ EXCEPT ![i] = t]]

TreeNotFound(op) ==
    /\ Call
    /\ ~TreeExists
    /\ result' = [op |-> op, kind |-> "tree_not_found", arg |-> NoId]
    /\ UNCHANGED <<cache, disk, observed>>

\* ------------------------------------------------------ generate_thoughts
\* mutant: the child gets the depth of the cursor
ChildDepthSame(current) == current.depth

ChildDepth(current) == current.depth + 1

NewThought(id, content, current) ==
    [id |-> id, content |-> content, parent_id |-> current.id,
     children |-> <<>>, status |-> PENDING, scores |-> EmptyDict,
     total_score |-> 0, depth |-> ChildDepth(current), metadata |-> EmptyDict]

\* mutant: the id is appended to the children of the root, not of the cursor
AddThoughtUnderRoot(tree, content) ==
    LET current == tree.thoughts[tree.current_id]
        thought_id == Len(tree.thoughts) + 1
        thought == NewThought(thought_id, content, current)
    IN [tree EXCEPT
          !.thoughts = Append([@ EXCEPT ![tree.root_id].children =
                                   Append(@, thought_id)], thought)]

\* one pass of the loop: the new thought is stored, its id appended to the
\* children of the cursor
AddThought(tree, content) ==
    LET current == tree.thoughts[tree.current_id]
        thought_id == Len(tree.thoughts) + 1
        thought == NewThought(thought_id, content, current)
    IN [tree EXCEPT
          !.thoughts = Append([@ EXCEPT ![tree.current_id].children =
                                   Append(@, thought_id)], thought)]

\* mutant: the loop stops after the first item
AddThoughtsOnce(tree, items) ==
    IF items = <<>> THEN tree ELSE AddThought(tree, Head(items))

RECURSIVE AddThoughts(_, _)
AddThoughts(tree, items) ==
    IF items = <<>> THEN tree
    ELSE AddThoughts(AddThought(tree, Head(items)), Tail(items))

GenerateThoughts(items) ==
    LET tree == GetTree
    IN /\ Step(Len(items))
       /\ TreeExists
       /\ SaveTree(AddThoughts(tree, items))
       /\ result' = [op |-> "generate_thoughts", kind |-> "ok", arg |-> items]
       /\ UNCHANGED observed

\* ------------------------------------------------------ evaluate_thoughts
\* mutant: the weights are not used
CalculateUnweighted(scores, weights) ==
    IF DOMAIN scores = {} THEN 0
    ELSE (Scale * SumOver(scores, DOMAIN scores)) \div Cardinality(DOMAIN scores)

\* _calculate_weighted_score, times Scale
CalculateWeightedScore(scores, weights) ==
    IF DOMAIN scores = {} THEN 0
    ELSE IF DOMAIN weights = {}
    THEN (Scale * SumOver(scores, DOMAIN scores)) \div Cardinality(DOMAIN scores)
    ELSE LET w == [c \in DOMAIN scores |->
                      IF c \in DOMAIN weights THEN weights[c] ELSE One]
             total_weight == SumOver(w, DOMAIN scores)
             weighted_sum == SumOver([c \in DOMAIN scores |-> scores[c] * w[c]],
                                     DOMAIN scores)
         IN IF total_weight > 0
            THEN (Scale * weighted_sum) \div total_weight
            ELSE 0

\* mutant: the tolerance does not grow with the depth
ShouldPruneShallow(thought, tree) ==
    IF tree.best_score_seen <= 0 THEN FALSE
    ELSE 10 * thought.total_score < tree.best_score_seen * 5

\* _should_prune: total_score < best_score_seen * (0.5 + 0.1 * depth)
ShouldPrune(thought, tree) ==
    IF tree.best_score_seen <= 0 THEN FALSE
    ELSE 10 * thought.total_score < tree.best_score_seen * (5 + thought.depth)

\* mutant: the bound follows the last evaluation
UpdateBestLast(best, total) == total

\* mutant: the comparison is turned round
UpdateBestFlipped(best, total) == IF total < best THEN total ELSE best

\* the update of the bound
UpdateBest(best, total) == IF total > best THEN total ELSE best

\* f"{x:.2f}" of a scaled number, in hundredths
Round2(x) == (200 * x + Scale) \div (2 * Scale)

\* mutant: the lowest score is not looked at
ClassifyByMean(scores, avg_score) ==
    IF avg_score >= 7 * Scale THEN PROMISING
    ELSE IF avg_score >= 5 * Scale THEN UNCERTAIN
    ELSE FAILED

\* the three-tier classification
Classify(scores, avg_score) ==
    LET min_score == IF DOMAIN scores # {} THEN SetMin(Range(scores)) ELSE 0
    IN IF avg_score >= 7 * Scale /\ min_score >= 5 THEN PROMISING
       ELSE IF avg_score >= 5 * Scale /\ min_score >= 3 THEN UNCERTAIN
       ELSE FAILED

\* one pass of the loop over the evaluations
EvaluateOne(tree, ev) ==
    IF ev.thought_id \notin DOMAIN tree.thoughts THEN tree
    ELSE LET old == tree.thoughts[ev.thought_id]
             total == CalculateWeightedScore(ev.scores, tree.criteria_weights)
             scored == [old EXCEPT !.scores = ev.scores, !.total_score = total]
             t1 == [tree EXCEPT !.best_score_seen = UpdateBest(@, total)]
         IN IF ShouldPrune(scored, t1)
            THEN WithThought(t1, ev.thought_id,
                   [scored EXCEPT
                      !.status = FAILED,
                      !.metadata = DictUpdate(@,
                          [pruned |-> TRUE,
                           prune_reason |-> <<Round2(total), Round2(t1.best_score_seen)>>])])
            ELSE WithThought(t1, ev.thought_id,
                   [scored EXCEPT !.status = Classify(ev.scores, total)])

\* mutant: the batch is worked through from its last entry
RECURSIVE EvaluateAllReversed(_, _)
EvaluateAllReversed(tree, evaluations) ==
    IF evaluations = <<>> THEN tree
    ELSE EvaluateOne(EvaluateAllReversed(tree, Tail(evaluations)),
                     Head(evaluations))

\* the loop over the batch, in the order of the list
RECURSIVE EvaluateAll(_, _)
EvaluateAll(tree, evaluations) ==
    IF evaluations = <<>> THEN tree
    ELSE EvaluateAll(EvaluateOne(tree, Head(evaluations)), Tail(evaluations))

\* the largest total_score an evaluation has assigned so far (history)
Observe(tree, evaluations) ==
    SetMax({observed} \cup
           {CalculateWeightedScore(evaluations[i].scores, tree.criteria_weights) :
              i \in {j \in DOMAIN evaluations :
                       evaluations[j].thought_id \in DOMAIN tree.thoughts}})

EvaluateThoughts(evaluations) ==
    LET tree == GetTree
    IN /\ Step(Len(evaluations))
       /\ TreeExists
       /\ SaveTree(EvaluateAll(tree, evaluations))
       /\ result' = [op |-> "evaluate_thoughts", kind |-> "ok", arg |-> evaluations]
       /\ observed' = Observe(tree, evaluations)

\* ------------------------------------------------------------ select_path
Status(tree, id) == tree.thoughts[id].status

Score(tree, id) == tree.thoughts[id].total_score

\* mutant: the failed children are candidates too
CandidatesWithFailed(tree) == tree.thoughts[tree.current_id].children

\* the children of the cursor that are not failed, in children order
Candidates(tree) ==
    SelectSeq(tree.thoughts[tree.current_id].children,
              LAMBDA cid : Status(tree, cid) # FAILED)

\* mutant: x is put before the elements of equal score
RECURSIVE InsertByScoreFirst(_, _, _)
InsertByScoreFirst(tree, sorted, x) ==
    IF sorted = <<>> THEN <<x>>
    ELSE IF Score(tree, Head(sorted)) > Score(tree, x)
    THEN <<Head(sorted)>> \o InsertByScoreFirst(tree, Tail(sorted), x)
    ELSE <<x>> \o sorted

\* x put behind every element of the sorted list whose score is not lower
RECURSIVE InsertByScore(_, _, _)
InsertByScore(tree, sorted, x) ==
    IF sorted = <<>> THEN <<x>>
    ELSE IF Score(tree, Head(sorted)) >= Score(tree, x)
    THEN <<Head(sorted)>> \o InsertByScore(tree, Tail(sorted), x)
    ELSE <<x>> \o sorted

\* candidates.sort(key=total_score, reverse=True): stable
RECURSIVE SortByScore(_, _, _)
SortByScore(tree, ids, sorted) ==
    IF ids = <<>> THEN sorted
    ELSE SortByScore(tree, Tail(ids), InsertByScore(tree, sorted, Head(ids)))

\* seq[:n]
SliceTo(seq, n) ==
    IF n >= 0
    THEN SubSeq(seq, 1, IF n < Len(seq) THEN n ELSE Len(seq))
    ELSE SubSeq(seq, 1, IF Len(seq) + n > 0 THEN Len(seq) + n ELSE 0)

\* mutant: no two contents count as similar
TooSimilarNever(a, b, threshold) == FALSE

\* Jaccard similarity of the word sets > 1 - threshold (threshold in tenths)
TooSimilar(a, b, threshold) ==
    LET intersection == Cardinality(Words(a) \cap Words(b))
        union == Cardinality(Words(a) \cup Words(b))
    IN IF union > 0
       THEN 10 * intersection > (10 - threshold) * union
       ELSE 0 > 10 - threshold

\* _is_diverse_enough
IsDiverseEnough(tree, id, siblings, threshold) ==
    \A k \in DOMAIN siblings :
        \/ Status(tree, siblings[k]) = FAILED
        \/ ~TooSimilar(tree.thoughts[id].content,
                       tree.thoughts[siblings[k]].content, threshold)

\* the first loop of the diverse branch
RECURSIVE DiverseWalk(_, _, _, _)
DiverseWalk(tree, candidates, selected, beam_width) ==
    IF candidates = <<>> \/ Len(selected) >= beam_width THEN selected
    ELSE DiverseWalk(tree, Tail(candidates),
            IF IsDiverseEnough(tree, Head(candidates), selected,
                               tree.diversity_threshold)
            THEN Append(selected, Head(candidates)) ELSE selected,
            beam_width)

\* mutant: the second loop does not skip what is selected already
RECURSIVE BackfillAgain(_, _, _)
BackfillAgain(candidates, selected, beam_width) ==
    IF candidates = <<>> THEN selected
    ELSE LET s2 == Append(selected, Head(candidates))
         IN IF Len(s2) >= beam_width THEN s2
            ELSE BackfillAgain(Tail(candidates), s2, beam_width)

\* the second loop of the diverse branch
RECURSIVE Backfill(_, _, _)
Backfill(candidates, selected, beam_width) ==
    IF candidates = <<>> THEN selected
    ELSE LET s2 == IF Head(candidates) \notin Range(selected)
                   THEN Append(selected, Head(candidates)) ELSE selected
         IN IF Len(s2) >= beam_width THEN s2
            ELSE Backfill(Tail(candidates), s2, beam_width)

DiverseSelect(tree, candidates, beam_width) ==
    LET kept == DiverseWalk(tree, candidates, <<>>, beam_width)
        want == IF beam_width < Len(candidates) THEN beam_width ELSE Len(candidates)
    IN IF Len(kept) < want THEN Backfill(candidates, kept, beam_width) ELSE kept

\* the last branch: range(min(beam_width, len(remaining))) pops of the head
SamplingSelect(candidates, beam_width) ==
    LET n == IF beam_width < Len(candidates) THEN beam_width ELSE Len(candidates)
    IN SubSeq(candidates, 1, IF n > 0 THEN n ELSE 0)

\* the selection by strategy, thought_id not given
StrategySelect(tree, candidates, beam_width) ==
    IF tree.strategy = "greedy" THEN <<candidates[1]>>
    ELSE IF tree.strategy = "beam" THEN SliceTo(candidates, beam_width)
    ELSE IF tree.strategy = "diverse" THEN DiverseSelect(tree, candidates, beam_width)
    ELSE SamplingSelect(candidates, beam_width)

\* tree.thoughts.get(thought_id) finds a thought
ThoughtFound(tree, thought_id) == thought_id \in DOMAIN tree.thoughts

\* the statuses after the marking loop
MarkSelected(tree, selected) ==
    [tree EXCEPT !.thoughts =
        [i \in DOMAIN @ |->
            IF i \in Range(selected) THEN [@[i] EXCEPT !.status = SELECTED]
            ELSE @[i]]]

\* what a select_path call is recorded as: its thought_id, the kind of value
\* returned, the "selected" list of the response, and the beam_width where
\* the call read it (the default where it did not)
Response(thought_id, beam_width, kind, selected) ==
    [op |-> "select_path", kind |-> kind, arg |-> thought_id,
     beam_width |-> beam_width, selected |-> selected]

SelectPath(thought_id, beam_width) ==
    LET tree == GetTree
        candidates == SortByScore(tree, Candidates(tree), <<>>)
        selected == IF thought_id # NoId THEN <<thought_id>>
                    ELSE StrategySelect(tree, candidates, beam_width)
        width == IF thought_id = NoId /\ tree.strategy # "greedy"
                 THEN beam_width ELSE DefaultBeamWidth
    IN /\ Call
       /\ TreeExists
       /\ IF candidates = <<>>
          THEN /\ result' = Response(thought_id, DefaultBeamWidth, "no_candidates", <<>>)
               /\ Cached(tree)
               /\ UNCHANGED <<disk, observed>>
          ELSE IF thought_id # NoId /\ ~ThoughtFound(tree, thought_id)
          THEN /\ result' = Response(thought_id, width, "thought_not_found", <<>>)
               /\ Cached(tree)
               /\ UNCHANGED <<disk, observed>>
          ELSE IF selected = <<>>
          THEN \* selected[0] raises IndexError, nothing was marked
               /\ result' = Response(thought_id, width, "index_error", <<>>)
               /\ Cached(tree)
               /\ UNCHANGED <<disk, observed>>
          ELSE /\ SaveTree([MarkSelected(tree, selected) EXCEPT
                              !.current_id = selected[1]])
               /\ result' = Response(thought_id, width, "ok", selected)
               /\ UNCHANGED observed

\* --------------------------------------------------------- expand_thought
ExpandThought(thought_id, expansion, implementation_notes) ==
    LET tree == GetTree
    IN /\ Call
       /\ TreeExists
       /\ IF thought_id \notin DOMAIN tree.thoughts
          THEN /\ result' = [op |-> "expand_thought", kind |-> "thought_not_found", arg |-> thought_id]
               /\ Cached(tree)
               /\ UNCHANGED <<disk, observed>>
          ELSE /\ SaveTree(WithThought(tree, thought_id,
                    [tree.thoughts[thought_id] EXCEPT
                       !.metadata = DictUpdate(@,
                           [expansion |-> expansion,
                            implementation_notes |-> implementation_notes]),
                       !.status = COMPLETE]))
               /\ result' = [op |-> "expand_thought", kind |-> "ok", arg |-> thought_id]
               /\ UNCHANGED observed

\* -------------------------------------------------------------- backtrack
\* mutant: the reason is not recorded
MarkFailedNoReason(current, reason) == [current EXCEPT !.status = FAILED]

\* the cursor thought after the first two statements of backtrack
MarkFailed(current, reason) ==
    [current EXCEPT !.status = FAILED,
                    !.metadata = DictUpdate(@, [failure_reason |-> reason])]

\* not current.parent_id
AtRoot(current) == current.parent_id = NoId

\* mutant: the failed siblings are kept
SiblingsWithFailed(tree, current) ==
    SelectSeq(tree.thoughts[current.parent_id].children,
              LAMBDA cid : cid # current.id)

\* the children of the parent that have not failed and are not the thought
\* left, in children order
Siblings(tree, current) ==
    SelectSeq(tree.thoughts[current.parent_id].children,
              LAMBDA cid : Status(tree, cid) # FAILED /\ cid # current.id)

\* sorted(siblings, key=total_score, reverse=True), as ids
Alternatives(tree, current) ==
    SortByScore(tree, Siblings(tree, current), <<>>)

\* mutant: the cursor is given an id the tree does not hold
MoveOffTree(tree, current) == [tree EXCEPT !.current_id = UnknownId]

\* mutant: the cursor stays on the thought left
StayOnThought(tree, current) == tree

\* tree.current_id = current.parent_id
MoveToParent(tree, current) ==
    [tree EXCEPT !.current_id = current.parent_id]

Backtrack(reason) ==
    LET tree == GetTree
        current == tree.thoughts[tree.current_id]
        marked == WithThought(tree, tree.current_id, MarkFailed(current, reason))
    IN /\ Call
       /\ TreeExists
       /\ IF AtRoot(current)
          THEN \* returns before _save_tree: the cached object keeps the marks
               /\ Cached(marked)
               /\ result' = [op |-> "backtrack", kind |-> "at_root", arg |-> reason]
               /\ UNCHANGED <<disk, observed>>
          ELSE /\ SaveTree(MoveToParent(marked, current))
               /\ result' = [op |-> "backtrack", kind |-> "ok", arg |-> reason,
                             alternatives |-> Alternatives(marked, current)]
               /\ UNCHANGED observed

\* --------------------------------------------------- set_criteria_weights
\* mutant: one acceptable entry is enough
ValidWeightsSome(tree, weights) ==
    \E c \in DOMAIN weights :
        /\ c \in Range(tree.criteria)
        /\ 0 <= weights[c] /\ weights[c] <= One

\* the loop over the request: no entry makes it return an error
ValidWeights(tree, weights) ==
    \A c \in DOMAIN weights :
        /\ c \in Range(tree.criteria)
        /\ 0 <= weights[c] /\ weights[c] <= One

SetCriteriaWeights(weights) ==
    LET tree == GetTree
    IN /\ Call
       /\ TreeExists
       /\ IF ~ValidWeights(tree, weights)
          THEN /\ result' = [op |-> "set_criteria_weights", kind |-> "invalid",
                          arg |-> weights]
               /\ Cached(tree)
               /\ UNCHANGED <<disk, observed>>
          ELSE /\ SaveTree([tree EXCEPT
                              !.criteria_weights = DictUpdate(@, weights)])
               /\ result' = [op |-> "set_criteria_weights", kind |-> "ok",
                          arg |-> weights]
               /\ UNCHANGED observed

\* ---------------------------------------------------------- get_best_path
StatusBonus(status) ==
    CASE status = COMPLETE -> 100
      [] status = PROMISING -> 50
      [] status = SELECTED -> 25
      [] status = UNCERTAIN -> 10
      [] status = PENDING -> 0
      [] status = FAILED -> -100

\* total_score + status_bonus, times Scale
EffectiveScore(thought) ==
    thought.total_score + Scale * StatusBonus(thought.status)

\* the loop over tree.thoughts.values() from thought i on: best_leaf is the
\* id of the best leaf so far (NoId for None), best_score its score
RECURSIVE ScanLeaves(_, _, _, _)
ScanLeaves(tree, i, best_leaf, best_score) ==
    IF i > Len(tree.thoughts) THEN best_leaf
    ELSE LET thought == tree.thoughts[i]
         IN IF thought.children = <<>> /\ EffectiveScore(thought) > best_score
            THEN ScanLeaves(tree, i + 1, i, EffectiveScore(thought))
            ELSE ScanLeaves(tree, i + 1, best_leaf, best_score)

\* best_leaf after the loop, which starts with best_score = -1
BestLeaf(tree) == ScanLeaves(tree, 1, NoId, -Scale)

\* the ids from the root down to thought id, following parent_id
RECURSIVE PathTo(_, _)
PathTo(tree, id) ==
    IF id = NoId \/ id \notin DOMAIN tree.thoughts THEN <<>>
    ELSE Append(PathTo(tree, tree.thoughts[id].parent_id), id)

GetBestPath ==
    LET tree == GetTree
        best_leaf == BestLeaf(tree)
    IN /\ Call
       /\ TreeExists
       /\ Cached(tree)
       /\ result' = IF best_leaf = NoId
                    THEN [op |-> "get_best_path", kind |-> "no_path",
                          arg |-> NoId, path |-> <<>>]
                    ELSE [op |-> "get_best_path", kind |-> "ok",
                          arg |-> NoId, path |-> PathTo(tree, best_leaf)]
       /\ UNCHANGED <<disk, observed>>

\* --------------------------------------------------------- get_tree_state
GetTreeState ==
    LET tree == GetTree
    IN /\ Call
       /\ TreeExists
       /\ Cached(tree)
       /\ result' = [op |-> "get_tree_state", kind |-> "ok",
                     arg |-> tree.current_id]
       /\ UNCHANGED <<disk, observed>>

\* ------------------------------------------------------------- list_trees
\* the ids of the files whose tree _get_tree returns
Listed == {id \in DOMAIN disk : id \in DOMAIN cache \/ Loadable(disk[id])}

ListTrees ==
    /\ Call
    /\ cache' = [id \in DOMAIN cache \cup Listed |->
                    IF id \in DOMAIN cache THEN cache[id]
                    ELSE DictToTree(disk[id])]
    /\ result' = [op |-> "list_trees", kind |-> "ok", arg |-> NoId,
                  trees |-> Listed]
    /\ UNCHANGED <<disk, observed>>

\* ------------------------------------------------------------ delete_tree
\* mutant: the cached tree is kept
KeepCached(trees) == trees

\* del _trees_cache[tree_id]
Uncache(trees) == [id \in DOMAIN trees \ {TreeId} |-> trees[id]]

\* path.unlink()
Unlink(files) == [id \in DOMAIN files \ {TreeId} |-> files[id]]

\* path.unlink() goes through; it may raise where open(path, "w") raises
Unlinks == IF fault = "open" THEN BOOLEAN ELSE {TRUE}

DeleteTree ==
    /\ Call
    /\ TreeExists
    /\ cache' = Uncache(cache)
    /\ \E unlinked \in Unlinks :
          IF TreeId \in DOMAIN disk /\ ~unlinked
          THEN /\ disk' = disk
               /\ result' = [op |-> "delete_tree", kind |-> "delete_failed",
                             arg |-> NoId]
          ELSE /\ disk' = Unlink(disk)
               /\ result' = [op |-> "delete_tree", kind |-> "ok", arg |-> NoId]
    /\ UNCHANGED observed

\* ------------------------------------------------------------------- next
\* the lengths of list a call can be given within the bounds
BatchLengths ==
    0..(IF MaxBatch < MaxSteps - steps THEN MaxBatch ELSE MaxSteps - steps)

ThoughtIds == IF TreeExists THEN DOMAIN GetTree.thoughts ELSE {}

\* an entry with an unknown thought_id is skipped whatever its scores
Evaluations ==
    [thought_id : ThoughtIds, scores : ScoreMaps]
        \cup {[thought_id |-> UnknownId, scores |-> EmptyDict]}

Operations ==
    {"generate_thoughts", "evaluate_thoughts", "select_path", "expand_thought",
     "backtrack", "set_criteria_weights"}

Next ==
    \/ \E s \in Strategies, d \in MaxDepths : CreateTree(s, d)
    \/ \E k \in BatchLengths : \E items \in [1..k -> Contents] :
          /\ Cardinality(ThoughtIds) + k <= MaxThoughts
          /\ GenerateThoughts(items)
    \/ \E k \in BatchLengths : \E evs \in [1..k -> Evaluations] :
          EvaluateThoughts(evs)
    \/ \E id \in ThoughtIds \cup {NoId, UnknownId}, bw \in BeamWidths :
          SelectPath(id, bw)
    \/ \E id \in ThoughtIds \cup {UnknownId}, e \in Expansions :
          ExpandThought(id, e, "")
    \/ \E r \in Reasons : Backtrack(r)
    \/ \E w \in WeightMaps : SetCriteriaWeights(w)
    \/ \E op \in Operations : TreeNotFound(op)

Spec == Init /\ [][Next]_vars

\* ------------------------------------------- selection on a prepared tree
\* strategy names create_tree is given, one of them not a strategy
SelectStrategies == Strategies \cup {"random"}

SelectContents == {"use redis cache layer", "Use redis cache layer now", "shard db"}

SelectBeamWidths == BeamWidths \cup {2}

SelectScoreMaps ==
    { [feasibility |-> 8, risk |-> 8],
      [feasibility |-> 6, risk |-> 4],
      [feasibility |-> 9, risk |-> 2] }

\* select_path with a thought_id that is found, the cursor having a candidate
SelectedById(tree, thought_id) ==
    [MarkSelected(tree, <<thought_id>>) EXCEPT !.current_id = thought_id]

\* the tree after create_tree, generate_thoughts(items), then, when below is
\* not empty, select_path(first child), generate_thoughts(below) and
\* select_path(root), and last evaluate_thoughts(evaluations)
Prepared(strategy, items, below, evaluations) ==
    LET wide == AddThoughts(NewTree(CriteriaGiven, strategy, 1), items)
        deep == IF below = <<>> THEN wide
                ELSE SelectedById(AddThoughts(SelectedById(wide, 2), below),
                                  wide.root_id)
    IN EvaluateAll(deep, evaluations)

\* a prepared tree: up to MaxSiblings thoughts under the root, a thought
\* under the first of them when below is 1, some of them evaluated in one
\* batch; calls more calls follow
PreparedInit(strategies, contents, belows, calls) ==
    \E strategy \in strategies, k \in 1..MaxSiblings, b \in belows :
      \E items \in [1..k -> contents], below \in [1..b -> contents],
         given \in [1..(k + b) -> BOOLEAN],
         scores \in [1..(k + b) -> SelectScoreMaps] :
        LET evaluations ==
                [i \in 1..(k + b) |->
                    IF given[i] THEN [thought_id |-> i + 1, scores |-> scores[i]]
                    ELSE [thought_id |-> UnknownId, scores |-> EmptyDict]]
            tree == Prepared(strategy, items, below, evaluations)
        IN /\ cache = [t1 |-> tree]
           /\ disk = [t1 |-> TreeToDict(tree)]
           /\ result = [op |-> "evaluate_thoughts", kind |-> "ok", arg |-> evaluations]
           /\ observed = tree.best_score_seen
           /\ steps = MaxSteps - calls
           /\ fault = "none"

SelectInit == PreparedInit(SelectStrategies \ {"diverse"}, {"shard db"}, {0}, 2)

GreedyInit == PreparedInit({"greedy"}, {"shard db"}, {0, 1}, 2)

DiverseInit == PreparedInit({"diverse"}, SelectContents, {0}, 1)

SelectNext ==
    \/ \E id \in ThoughtIds \cup {NoId, UnknownId}, bw \in SelectBeamWidths :
          SelectPath(id, bw)
    \/ \E c \in SelectContents : GenerateThoughts(<<c>>)
    \/ \E ev \in [thought_id : ThoughtIds, scores : SelectScoreMaps] :
          EvaluateThoughts(<<ev>>)
    \/ \E id \in ThoughtIds : ExpandThought(id, "details", "")
    \/ \E r \in Reasons : Backtrack(r)

SelectSpec == SelectInit /\ [][SelectNext]_vars

GreedySpec == GreedyInit /\ [][SelectNext]_vars

EvaluateInit == PreparedInit({"greedy"}, {"shard db"}, {0, 1}, 2)

\* evaluations and weight changes on a prepared tree
EvaluateNext ==
    \/ \E k \in BatchLengths :
          \E evs \in [1..k -> [thought_id : ThoughtIds,
                               scores : SelectScoreMaps \cup {EmptyDict}]
                                 \cup {[thought_id |-> UnknownId,
                                        scores |-> EmptyDict]}] :
             EvaluateThoughts(evs)
    \/ \E w \in WeightMaps : SetCriteriaWeights(w)

EvaluateSpec == EvaluateInit /\ [][EvaluateNext]_vars

\* the one call that follows the preparation is a select_path
DiverseNext ==
    \E id \in ThoughtIds \cup {NoId, UnknownId}, bw \in SelectBeamWidths :
        SelectPath(id, bw)

DiverseSpec == DiverseInit /\ [][DiverseNext]_vars

\* ------------------------------------------------ trees of any max_depth
\* max_depth values create_tree is given: 5 is the default
CreateDepths == {0, 1, 5}

CreateNext ==
    \/ \E s \in SelectStrategies, d \in CreateDepths : CreateTree(s, d)
    \/ \E c \in Contents :
          /\ Cardinality(ThoughtIds) < MaxThoughts
          /\ GenerateThoughts(<<c>>)
    \/ \E id \in ThoughtIds \cup {NoId}, bw \in BeamWidths : SelectPath(id, bw)
    \/ \E r \in Reasons : Backtrack(r)
    \/ \E op \in Operations : TreeNotFound(op)

CreateSpec == Init /\ [][CreateNext]_vars

\* ------------------------------------------------- a path of depth three
\* the contents of the thoughts along the path, one per level
PathContents == <<"shard db", "shard db", "shard db">>

\* generate_thoughts with one item, then select_path with the id of the new
\* thought, once per level
RECURSIVE Descend(_, _)
Descend(tree, contents) ==
    IF contents = <<>> THEN tree
    ELSE Descend(SelectedById(AddThought(tree, Head(contents)),
                              Len(tree.thoughts) + 1),
                 Tail(contents))

\* a tree of the default max_depth whose cursor has gone down one thought
\* per level; there is work left for one evaluation and a batch of two
DepthInit ==
    LET tree == Descend(NewTree(CriteriaGiven, "greedy", 5), PathContents)
    IN /\ cache = [t1 |-> tree]
       /\ disk = [t1 |-> TreeToDict(tree)]
       /\ result = Response(tree.current_id, DefaultBeamWidth, "ok",
                            <<tree.current_id>>)
       /\ observed = 0
       /\ steps = MaxSteps - 3
       /\ fault = "none"

\* evaluations of the thoughts of the path, the root among them
DepthNext ==
    \E k \in BatchLengths :
       \E evs \in [1..k -> [thought_id : ThoughtIds, scores : SelectScoreMaps]] :
          EvaluateThoughts(evs)

DepthSpec == DepthInit /\ [][DepthNext]_vars

\* ------------------------------------------------------ paths to a leaf
PathScoreMaps ==
    { [feasibility |-> 6, risk |-> 6],
      [feasibility |-> 9, risk |-> 9],
      [feasibility |-> 9, risk |-> 2] }

\* a tree after create_tree, generate_thoughts (when k > 0) and
\* evaluate_thoughts; three calls follow
PathInit ==
    \E k \in 0..MaxSiblings :
      \E given \in [1..k -> BOOLEAN], scores \in [1..k -> PathScoreMaps] :
        LET evaluations ==
                [i \in 1..k |->
                    IF given[i] THEN [thought_id |-> i + 1, scores |-> scores[i]]
                    ELSE [thought_id |-> UnknownId, scores |-> EmptyDict]]
            tree == Prepared("greedy", [i \in 1..k |-> "shard db"], <<>>,
                             evaluations)
        IN /\ cache = [t1 |-> tree]
           /\ disk = [t1 |-> TreeToDict(tree)]
           /\ result = [op |-> "evaluate_thoughts", kind |-> "ok",
                        arg |-> evaluations]
           /\ observed = tree.best_score_seen
           /\ steps = MaxSteps - 3
           /\ fault = "none"

PathNext ==
    \/ GetBestPath
    \/ GenerateThoughts(<<"shard db">>)
    \/ \E id \in ThoughtIds \cup {NoId} : SelectPath(id, DefaultBeamWidth)
    \/ \E id \in ThoughtIds : ExpandThought(id, "details", "")
    \/ \E r \in Reasons : Backtrack(r)

PathSpec == PathInit /\ [][PathNext]_vars

\* ------------------------------------------- write failures and restarts
Faults == {"none", "open", "dump"}

\* the data directory changes its state (read-only or full, or back)
SetFault(f) ==
    /\ f # fault
    /\ fault' = f
    /\ UNCHANGED <<cache, disk, result, observed, steps>>

\* the server process ends between two calls and is started again: the
\* module-level cache is empty, the files are as they were
Restart ==
    /\ Call
    /\ cache' = EmptyDict
    /\ result' = [op |-> "restart", kind |-> "ok", arg |-> NoId]
    /\ UNCHANGED <<disk, observed>>

\* the server process ends inside _save_tree, after open(path, "w") has
\* truncated the file and before json.dump has written the record
CrashInSave ==
    /\ Call
    /\ TreeExists
    /\ fault = "none"
    /\ cache' = EmptyDict
    /\ disk' = DictUpdate(disk, [t1 |-> Truncated])
    /\ result' = [op |-> "restart", kind |-> "in_save", arg |-> NoId]
    /\ UNCHANGED observed

FaultNext ==
    \/ CreateTree("greedy", 1)
    \/ \E c \in Contents :
          /\ Cardinality(ThoughtIds) < MaxThoughts
          /\ GenerateThoughts(<<c>>)
    \/ \E ev \in [thought_id : ThoughtIds, scores : PathScoreMaps] :
          EvaluateThoughts(<<ev>>)
    \/ \E id \in ThoughtIds \cup {NoId} : SelectPath(id, DefaultBeamWidth)
    \/ \E id \in ThoughtIds : ExpandThought(id, "details", "")
    \/ \E r \in Reasons : Backtrack(r)
    \/ \E w \in WeightMaps : SetCriteriaWeights(w)
    \/ \E op \in Operations : TreeNotFound(op)
    \/ \E f \in Faults : SetFault(f)
    \/ Restart
    \/ CrashInSave

FaultSpec == Init /\ [][FaultNext]_vars

\* --------------------------------------------------------------- deletion
\* every tool that takes a tree_id
TreeOperations ==
    Operations \cup {"get_tree_state", "get_best_path", "delete_tree"}

\* a tree after create_tree and generate_thoughts; three calls follow
DeleteInit ==
    \E k \in 1..MaxSiblings :
       LET tree == Prepared("greedy", [i \in 1..k |-> "shard db"], <<>>, <<>>)
       IN /\ cache = [t1 |-> tree]
          /\ disk = [t1 |-> TreeToDict(tree)]
          /\ result = [op |-> "generate_thoughts", kind |-> "ok",
                       arg |-> [i \in 1..k |-> "shard db"]]
          /\ observed = 0
          /\ steps = MaxSteps - 3
          /\ fault = "none"

\* create_tree is left out: the id it draws is never the id of the tree
\* that was deleted
DeleteNext ==
    \/ DeleteTree
    \/ ListTrees
    \/ GetTreeState
    \/ GetBestPath
    \/ Restart
    \/ \E f \in Faults : SetFault(f)
    \/ GenerateThoughts(<<"shard db">>)
    \/ \E id \in ThoughtIds :
          EvaluateThoughts(<<[thought_id |-> id,
                              scores |-> [feasibility |-> 9, risk |-> 2]]>>)
    \/ \E id \in ThoughtIds \cup {NoId} : SelectPath(id, DefaultBeamWidth)
    \/ \E id \in ThoughtIds : ExpandThought(id, "details", "")
    \/ Backtrack("dead end")
    \/ SetCriteriaWeights([risk |-> 0])
    \/ \E op \in TreeOperations : TreeNotFound(op)

DeleteSpec == DeleteInit /\ [][DeleteNext]_vars

\* ------------------------------------------------------ requests of weights
\* weights in halves: requests with a good and a bad entry, one criterion
\* only, none, the bounds 0.0 and 1.0
RequestedWeights ==
    WeightMaps \cup
    { EmptyDict,
      [feasibility |-> 1],
      [feasibility |-> 2, risk |-> 0],
      [feasibility |-> 1, risk |-> 3],
      [feasibility |-> -1, risk |-> 1],
      [feasibility |-> 1, speed |-> 1] }

WeightInit == PreparedInit({"greedy"}, {"shard db"}, {0}, 3)

WeightNext ==
    \/ \E w \in RequestedWeights : SetCriteriaWeights(w)
    \/ \E ev \in [thought_id : ThoughtIds, scores : SelectScoreMaps] :
          EvaluateThoughts(<<ev>>)

WeightSpec == WeightInit /\ [][WeightNext]_vars

\* ------------------------------------------------------- weighted scores
\* criteria_weights of the record the tree is loaded from, in halves; a
\* record without criteria_weights loads as the empty dict
RecordedWeights ==
    { EmptyDict,
      [feasibility |-> 2, risk |-> 2],
      [feasibility |-> 1, risk |-> 2],
      [feasibility |-> 2, risk |-> 0],
      [feasibility |-> 0, risk |-> 0] }

\* scores of one evaluation: none, one criterion, two, one of them not a
\* criterion of the tree
SubmittedScores ==
    { EmptyDict,
      [feasibility |-> 7],
      [feasibility |-> 9, risk |-> 2],
      [feasibility |-> 6, risk |-> 4],
      [risk |-> 8, speed |-> 4] }

\* the server starts with the record of a tree that create_tree and
\* generate_thoughts have built; there is work left for two evaluations
ScoreInit ==
    \E k \in 1..MaxSiblings, weights \in RecordedWeights :
       LET tree == Prepared("greedy", [i \in 1..k |-> "shard db"], <<>>, <<>>)
       IN /\ cache = EmptyDict
          /\ disk = [t1 |-> TreeToDict([tree EXCEPT
                                          !.criteria_weights = weights])]
          /\ result = [op |-> "restart", kind |-> "ok", arg |-> NoId]
          /\ observed = 0
          /\ steps = MaxSteps - 2
          /\ fault = "none"

ScoreNext ==
    \E k \in BatchLengths :
       \E evs \in [1..k -> [thought_id : ThoughtIds, scores : SubmittedScores]] :
          EvaluateThoughts(evs)

ScoreSpec == ScoreInit /\ [][ScoreNext]_vars

\* ------------------------------------------- restarts, every write going
\* through
RestartNext ==
    \/ CreateTree("greedy", 1)
    \/ \E c \in Contents :
          /\ Cardinality(ThoughtIds) < MaxThoughts
          /\ GenerateThoughts(<<c>>)
    \/ \E ev \in [thought_id : ThoughtIds, scores : PathScoreMaps] :
          EvaluateThoughts(<<ev>>)
    \/ \E id \in ThoughtIds \cup {NoId} : SelectPath(id, DefaultBeamWidth)
    \/ \E id \in ThoughtIds : ExpandThought(id, "details", "")
    \/ \E r \in Reasons : Backtrack(r)
    \/ \E w \in WeightMaps : SetCriteriaWeights(w)
    \/ Restart

RestartSpec == Init /\ [][RestartNext]_vars

\* ------------------------------------------------------ the shape of a tree
ShapeContents == {"use cache", "shard db"}

\* a tree after create_tree and generate_thoughts; there is work left for
\* four calls
ShapeInit ==
    \E k \in 1..MaxSiblings :
       LET items == [i \in 1..k |-> "shard db"]
           tree == Prepared("greedy", items, <<>>, <<>>)
       IN /\ cache = [t1 |-> tree]
          /\ disk = [t1 |-> TreeToDict(tree)]
          /\ result = [op |-> "generate_thoughts", kind |-> "ok", arg |-> items]
          /\ observed = 0
          /\ steps = MaxSteps - 4
          /\ fault = "none"

ShapeNext ==
    \/ \E k \in BatchLengths : \E items \in [1..k -> ShapeContents] :
          GenerateThoughts(items)
    \/ \E id \in ThoughtIds :
          EvaluateThoughts(<<[thought_id |-> id,
                              scores |-> [feasibility |-> 8, risk |-> 8]]>>)
    \/ \E id \in ThoughtIds \cup {NoId} : SelectPath(id, DefaultBeamWidth)
    \/ \E id \in ThoughtIds : ExpandThought(id, "details", "")
    \/ Backtrack("dead end")
    \/ SetCriteriaWeights([risk |-> 0])

ShapeSpec == ShapeInit /\ [][ShapeNext]_vars

\* ------------------------------------------- backtracking to the siblings
\* a prepared tree with the cursor at the root; two calls follow
BacktrackInit == PreparedInit({"greedy"}, {"shard db"}, {0}, 2)

BacktrackNext ==
    \/ \E id \in ThoughtIds \cup {NoId} : SelectPath(id, DefaultBeamWidth)
    \/ \E r \in Reasons : Backtrack(r)

BacktrackSpec == BacktrackInit /\ [][BacktrackNext]_vars

\* --------------------------------------------------- a path of depth six
DeepContents ==
    <<"shard db", "shard db", "shard db", "shard db", "shard db", "shard db">>

\* a tree created with max_depth 6 whose cursor has gone down one thought
\* per level to that depth; no thought has been evaluated; two calls follow
DeepInit ==
    LET tree == Descend(NewTree(CriteriaGiven, "greedy", 6), DeepContents)
    IN /\ cache = [t1 |-> tree]
       /\ disk = [t1 |-> TreeToDict(tree)]
       /\ result = Response(tree.current_id, DefaultBeamWidth, "ok",
                            <<tree.current_id>>)
       /\ observed = 0
       /\ steps = MaxSteps - 2
       /\ fault = "none"

\* evaluations of the thoughts of the path, one or two in a call
DeepNext ==
    \E k \in BatchLengths :
       \E evs \in [1..k -> [thought_id : ThoughtIds, scores : SelectScoreMaps]] :
          EvaluateThoughts(evs)

DeepSpec == DeepInit /\ [][DeepNext]_vars

\* ------------------------------------------- one batch or several calls
BatchScoreMaps ==
    { [feasibility |-> 6, risk |-> 4],
      [feasibility |-> 9, risk |-> 9],
      [feasibility |-> 9, risk |-> 2] }

\* the tree after create_tree and generate_thoughts with k items
Unevaluated(k) == Prepared("greedy", [i \in 1..k |-> "shard db"], <<>>, <<>>)

\* the work left is three evaluations, in one, two or three calls
BatchInit ==
    \E k \in 1..MaxSiblings :
       /\ cache = [t1 |-> Unevaluated(k)]
       /\ disk = [t1 |-> TreeToDict(Unevaluated(k))]
       /\ result = [op |-> "generate_thoughts", kind |-> "ok",
                    arg |-> [i \in 1..k |-> "shard db"]]
       /\ observed = 0
       /\ steps = MaxSteps - 3
       /\ fault = "none"

BatchNext ==
    \E k \in BatchLengths \ {0} :
       \E evs \in [1..k -> [thought_id : ThoughtIds, scores : BatchScoreMaps]] :
          EvaluateThoughts(evs)

BatchSpec == BatchInit /\ [][BatchNext]_vars

\* ------------------------------------------------ backtracking to the root
\* a tree whose cursor has gone down d thoughts, one per level; four calls
\* follow
ExhaustInit ==
    \E d \in 0..Len(PathContents) :
       LET tree == Descend(NewTree(CriteriaGiven, "greedy", 5),
                           SubSeq(PathContents, 1, d))
       IN /\ cache = [t1 |-> tree]
          /\ disk = [t1 |-> TreeToDict(tree)]
          /\ result = IF d = 0
                      THEN [op |-> "create_tree", kind |-> "ok", arg |-> 5]
                      ELSE Response(tree.current_id, DefaultBeamWidth, "ok",
                                    <<tree.current_id>>)
          /\ observed = 0
          /\ steps = MaxSteps - 4
          /\ fault = "none"

ExhaustNext ==
    \/ \E r \in Reasons : Backtrack(r)
    \/ \E k \in BatchLengths \ {0} : GenerateThoughts([i \in 1..k |-> "shard db"])
    \/ \E id \in ThoughtIds \cup {NoId} : SelectPath(id, DefaultBeamWidth)

ExhaustSpec == ExhaustInit /\ [][ExhaustNext]_vars

\* --------------------------------------------- a cursor without candidates
\* a prepared tree of any strategy, some of its thoughts Failed by their
\* evaluation; three calls follow, a restart of the server among them
FrontierInit == PreparedInit(Strategies, {"shard db"}, {0}, 3)

FrontierNext ==
    \/ \E id \in ThoughtIds \cup {NoId}, bw \in {1, DefaultBeamWidth} :
          SelectPath(id, bw)
    \/ \E r \in Reasons : Backtrack(r)
    \/ Restart

FrontierSpec == FrontierInit /\ [][FrontierNext]_vars

\* ----------------------------------------------------------------- views
Thoughts == GetTree.thoughts

Cursor == GetTree.current_id

Best == GetTree.best_score_seen

Returned(op, kind) == result.op = op /\ result.kind = kind

\* ------------------------------------------------------------------ claims

\* C1: Failed is terminal: a thought whose status is Failed has status Failed
\* after every later call.
FailedIsTerminal ==
    [][(TreeExists /\ TreeExists') =>
          \A i \in DOMAIN Thoughts :
              Thoughts[i].status = FAILED => Thoughts'[i].status = FAILED]_vars

\* C2: every status change of a thought is Pending -> Promising, Uncertain or
\* Failed by evaluate_thoughts, Promising or Uncertain -> Selected by
\* select_path, Selected -> Complete by expand_thought, or Selected -> Failed
\* by backtrack.
AllowedChange(old, new, op) ==
    \/ op = "evaluate_thoughts" /\ old = PENDING
                                /\ new \in {PROMISING, UNCERTAIN, FAILED}
    \/ op = "select_path" /\ old \in {PROMISING, UNCERTAIN} /\ new = SELECTED
    \/ op = "expand_thought" /\ old = SELECTED /\ new = COMPLETE
    \/ op = "backtrack" /\ old = SELECTED /\ new = FAILED

OnlyAllowedChanges ==
    [][(TreeExists /\ TreeExists') =>
          \A i \in DOMAIN Thoughts :
              Thoughts'[i].status # Thoughts[i].status =>
                  AllowedChange(Thoughts[i].status, Thoughts'[i].status,
                                result'.op)]_vars

\* C3: backtrack with the cursor on the root returns the "cannot backtrack
\* further" signal and leaves the cached tree and its record as they were.
RootBacktrackChangesNothing ==
    [][(TreeExists /\ steps' # steps /\ Returned("backtrack", "at_root")') =>
          GetTree' = GetTree /\ disk' = disk]_vars

\* C4 as stated: best_score_seen is >= 0 and is the largest total_score a
\* thought of the tree holds now (0 when none was evaluated).
BestIsMaxCurrentTotal ==
    TreeExists =>
        /\ Best >= 0
        /\ Best = SetMax({0} \cup {Thoughts[i].total_score : i \in DOMAIN Thoughts})

\* C4 amended: best_score_seen is >= 0, is no lower than the total_score any
\* thought holds now, and is the largest total_score an evaluation has
\* assigned in the tree so far (0 when there was none).
BestIsMaxObserved ==
    TreeExists =>
        /\ Best >= 0
        /\ \A i \in DOMAIN Thoughts : Thoughts[i].total_score <= Best
        /\ Best = observed

\* a thought was evaluated a second time with a lower score after it set the bound
ReevaluatedLower ==
    /\ TreeExists
    /\ Returned("evaluate_thoughts", "ok")
    /\ Best > 0
    /\ \A i \in DOMAIN Thoughts : Thoughts[i].total_score < Best

\* C5: best_score_seen never decreases.
BestNeverDecreases ==
    [][(TreeExists /\ TreeExists') =>
          GetTree'.best_score_seen >= GetTree.best_score_seen]_vars

\* an evaluation gave a total below the bound an earlier one had set
EvaluatedBelowBest ==
    /\ TreeExists
    /\ Returned("evaluate_thoughts", "ok")
    /\ \E i, j \in DOMAIN Thoughts :
          /\ Thoughts[i].total_score = Best
          /\ Thoughts[j].total_score > 0
          /\ Thoughts[j].total_score < Best

\* C6: the cursor is the id of a thought of the tree.
CursorInThoughts ==
    TreeExists => Cursor \in DOMAIN Thoughts

\* the cursor came back to the root by a backtrack from a selected child
BacktrackedToRoot ==
    /\ TreeExists
    /\ Returned("backtrack", "ok")
    /\ Cursor = GetTree.root_id
    /\ Cardinality(DOMAIN Thoughts) > 1

\* C7: a thought has depth 0 iff it is the root; every other thought is one
\* deeper than its parent.
DepthInvariant ==
    TreeExists =>
        \A i \in DOMAIN Thoughts :
            /\ Thoughts[i].depth = 0 <=> i = GetTree.root_id
            /\ i # GetTree.root_id =>
                  /\ Thoughts[i].parent_id \in DOMAIN Thoughts
                  /\ Thoughts[i].depth = Thoughts[Thoughts[i].parent_id].depth + 1

\* a thought generated under a selected child of the root
HasGrandchild ==
    /\ TreeExists
    /\ \E i \in DOMAIN Thoughts : Thoughts[i].depth = 2

\* number of places of the sequence that hold x
Occurrences(seq, x) == Cardinality({k \in DOMAIN seq : seq[k] = x})

\* C8: every thought but the root has a parent in the tree whose children
\* hold its id exactly once, no other thought's children hold it, and the
\* root has no parent.
ParentChildInvariant ==
    TreeExists =>
        /\ Thoughts[GetTree.root_id].parent_id = NoId
        /\ \A p \in DOMAIN Thoughts :
              Occurrences(Thoughts[p].children, GetTree.root_id) = 0
        /\ \A i \in DOMAIN Thoughts :
              i # GetTree.root_id =>
                    /\ Thoughts[i].parent_id \in DOMAIN Thoughts
                    /\ \A p \in DOMAIN Thoughts :
                          Occurrences(Thoughts[p].children, i) =
                              IF p = Thoughts[i].parent_id THEN 1 ELSE 0

\* a thought was generated under a thought that is not the root, which has a
\* child of its own as its parent has
GeneratedUnderChild ==
    /\ TreeExists
    /\ Returned("generate_thoughts", "ok")
    /\ \E i \in DOMAIN Thoughts :
          /\ i # GetTree.root_id
          /\ Len(Thoughts[i].children) >= 1
          /\ Len(Thoughts[Thoughts[i].parent_id].children) >= 1

\* C9: backtrack with the cursor on a thought T that is not the root marks T
\* Failed, records the reason in T's metadata, moves the cursor to T's
\* parent and persists the tree; no other thought changes status.
BacktrackEffect ==
    [][(TreeExists /\ steps' # steps /\ result'.op = "backtrack"
          /\ Cursor # GetTree.root_id) =>
          /\ Thoughts'[Cursor].status = FAILED
          /\ "failure_reason" \in DOMAIN Thoughts'[Cursor].metadata
          /\ Thoughts'[Cursor].metadata.failure_reason = result'.arg
          /\ Cursor' = Thoughts[Cursor].parent_id
          /\ \A i \in DOMAIN Thoughts \ {Cursor} :
                Thoughts'[i].status = Thoughts[i].status
          /\ TreeId \in DOMAIN disk'
          /\ disk'[TreeId] = TreeToDict(GetTree')]_vars

\* a backtrack has just left a thought that is not the root
BacktrackedFromChild ==
    /\ TreeExists
    /\ Returned("backtrack", "ok")
    /\ \E i \in DOMAIN Thoughts :
          /\ i # GetTree.root_id
          /\ Thoughts[i].status = FAILED
          /\ "failure_reason" \in DOMAIN Thoughts[i].metadata
          /\ Thoughts[i].metadata.failure_reason = result.arg
          /\ Cursor = Thoughts[i].parent_id

\* C10: a Selected thought becomes Failed only by a backtrack made while it
\* is the cursor.
SelectedFailsOnlyByBacktrack ==
    [][(TreeExists /\ TreeExists') =>
          \A i \in DOMAIN Thoughts :
              (Thoughts[i].status = SELECTED /\ Thoughts'[i].status = FAILED) =>
                  (result'.op = "backtrack" /\ i = Cursor)]_vars

\* the children of the cursor that are not Failed
Viable == {c \in Range(Thoughts[Cursor].children) : Thoughts[c].status # FAILED}

\* the place of c in the children list of the cursor
Place(c) == CHOOSE k \in DOMAIN Thoughts[Cursor].children :
                Thoughts[Cursor].children[k] = c

\* c comes before d when the viable children are put in descending order of
\* total_score, equal scores in the order of the children list
Before(c, d) ==
    \/ Thoughts[c].total_score > Thoughts[d].total_score
    \/ Thoughts[c].total_score = Thoughts[d].total_score /\ Place(c) < Place(d)

\* the number of viable children that come before c
Rank(c) == Cardinality({d \in Viable : Before(d, c)})

\* a select_path call without thought_id is the step
StrategyCall == steps' # steps /\ result'.op = "select_path" /\ result'.arg = NoId

\* C11 as stated: on a Greedy tree a select_path call without thought_id that
\* follows one directly selects the same thought again and leaves the cursor
\* on it.
GreedyIdempotent ==
    [][(TreeExists /\ GetTree.strategy = "greedy"
          /\ Returned("select_path", "ok") /\ result.arg = NoId
          /\ StrategyCall) =>
          (result'.kind = "ok" /\ Cursor' = Cursor)]_vars

\* C11 amended: on a Greedy tree a select_path call without thought_id that
\* directly follows one that selected X works on the children of X: with no
\* child of X that is not Failed it returns the no-candidates signal and
\* leaves tree, record and cursor as they were; otherwise it selects the
\* highest-scored such child of X and moves the cursor to it.
GreedySecondSelect ==
    [][(TreeExists /\ GetTree.strategy = "greedy"
          /\ Returned("select_path", "ok") /\ result.arg = NoId
          /\ StrategyCall) =>
          IF Viable = {}
          THEN /\ result'.kind = "no_candidates"
               /\ GetTree' = GetTree
               /\ disk' = disk
          ELSE /\ result'.kind = "ok"
               /\ Cursor' \in Viable
               /\ Rank(Cursor') = 0
               /\ Thoughts'[Cursor'].status = SELECTED]_vars

\* the second of two select_path calls without thought_id on a Greedy tree
\* found no candidate under the thought the first had selected
SecondSelectFoundNone ==
    /\ TreeExists
    /\ GetTree.strategy = "greedy"
    /\ Returned("select_path", "no_candidates")
    /\ result.arg = NoId
    /\ steps = MaxSteps
    /\ Cursor # GetTree.root_id
    /\ Thoughts[Cursor].status = SELECTED
    /\ Thoughts[Cursor].children = <<>>
    /\ \A d \in Range(Thoughts[GetTree.root_id].children) \ {Cursor} :
          \/ Thoughts[d].status = FAILED
          \/ Thoughts[d].total_score < Thoughts[Cursor].total_score
          \/ /\ Thoughts[d].total_score = Thoughts[Cursor].total_score
             /\ d > Cursor
    /\ \E d \in Range(Thoughts[GetTree.root_id].children) \ {Cursor} :
          Thoughts[d].status # FAILED

\* C12: under Greedy, select_path without thought_id selects exactly one
\* thought: the child of the cursor that is not Failed with the highest
\* total_score, the earliest in the children list among those that tie.
GreedySelectsBest ==
    [][(TreeExists /\ GetTree.strategy = "greedy" /\ StrategyCall
          /\ Viable # {}) =>
          /\ result'.kind = "ok"
          /\ Cursor' \in Viable
          /\ Rank(Cursor') = 0
          /\ Thoughts'[Cursor'] =
                 [Thoughts[Cursor'] EXCEPT !.status = SELECTED]
          /\ \A i \in DOMAIN Thoughts \ {Cursor'} :
                Thoughts'[i] = Thoughts[i]]_vars

\* Greedy has selected the earlier of two children with the highest score
\* among those not Failed, a Failed child holding a higher score
GreedyPickedAmongTied ==
    /\ TreeExists
    /\ GetTree.strategy = "greedy"
    /\ Returned("select_path", "ok")
    /\ result.arg = NoId
    /\ Cursor # GetTree.root_id
    /\ \E d, f \in Range(Thoughts[Thoughts[Cursor].parent_id].children) :
          /\ d > Cursor
          /\ Thoughts[d].status # FAILED
          /\ Thoughts[d].total_score = Thoughts[Cursor].total_score
          /\ Thoughts[f].status = FAILED
          /\ Thoughts[f].total_score > Thoughts[Cursor].total_score

\* the smaller of two numbers
Min(a, b) == IF a < b THEN a ELSE b

\* the list holds the m viable children that come first, in order
TopOfViable(list, m) ==
    /\ Len(list) = m
    /\ \A k \in DOMAIN list : list[k] \in Viable /\ Rank(list[k]) = k - 1

\* C13: under Beam, and in the same way under Sampling, select_path selects
\* the first min(beam_width, n) of the n children of the cursor that are not
\* Failed, in descending order of total_score, ties in insertion order.
BeamAndSamplingTakeTop ==
    [][(TreeExists /\ GetTree.strategy \in {"beam", "sampling"}
          /\ StrategyCall /\ Viable # {}) =>
          /\ result'.kind = "ok"
          /\ TopOfViable(result'.selected,
                         Min(result'.beam_width, Cardinality(Viable)))]_vars

\* the Jaccard similarity of the word sets of the contents of c and d is
\* greater than 1 - diversity_threshold
NearDuplicates(c, d) ==
    LET both == Words(Thoughts[c].content) \cap Words(Thoughts[d].content)
        either == Words(Thoughts[c].content) \cup Words(Thoughts[d].content)
    IN /\ either # {}
       /\ 10 * Cardinality(both) >
             (10 - GetTree.diversity_threshold) * Cardinality(either)

\* C14: the cursor has three children that are not Failed, two of them near
\* duplicates of each other and the third of neither: select_path under
\* Diverse with beam_width 2 selects the third and exactly one of the two,
\* whatever the scores.
DiverseDeduplicates ==
    [][(TreeExists /\ GetTree.strategy = "diverse" /\ StrategyCall
          /\ result'.beam_width = 2 /\ Cardinality(Viable) = 3) =>
          \A a, b, d \in Viable :
              (/\ a # b /\ a # d /\ b # d
               /\ NearDuplicates(a, b)
               /\ ~NearDuplicates(a, d)
               /\ ~NearDuplicates(b, d)) =>
                  /\ result'.kind = "ok"
                  /\ Len(result'.selected) = 2
                  /\ d \in Range(result'.selected)
                  /\ (a \in Range(result'.selected)) #
                        (b \in Range(result'.selected))
                  /\ \A i \in DOMAIN Thoughts :
                        Thoughts'[i].status =
                            IF i \in Range(result'.selected) THEN SELECTED
                            ELSE Thoughts[i].status]_vars

\* Diverse with beam_width 2 has selected the lowest-scored of three
\* children, the second-best being a near duplicate of the best in other
\* words
DuplicateSkipped ==
    /\ TreeExists
    /\ GetTree.strategy = "diverse"
    /\ Returned("select_path", "ok")
    /\ result.arg = NoId
    /\ result.beam_width = 2
    /\ Len(result.selected) = 2
    /\ \E b \in Range(Thoughts[GetTree.root_id].children) :
          LET a == result.selected[1]
              d == result.selected[2]
          IN /\ Len(Thoughts[GetTree.root_id].children) = 3
             /\ b \notin {a, d}
             /\ Thoughts[b].status \in {PROMISING, UNCERTAIN}
             /\ Thoughts[b].total_score > Thoughts[d].total_score
             /\ Thoughts[a].content # Thoughts[b].content
             /\ NearDuplicates(a, b)
             /\ ~NearDuplicates(a, d)
             /\ ~NearDuplicates(b, d)

\* the viable child with r viable children before it
AtRank(r) == CHOOSE c \in Viable : Rank(c) = r

\* the members of S, a set of viable children, in descending order
InOrder(S) ==
    [k \in 1..Cardinality(S) |->
        CHOOSE c \in S : Cardinality({d \in S : Before(d, c)}) = k - 1]

\* the viable children kept by the diversity walk from rank r on: a child
\* is kept while fewer than beam_width are, if it is a near duplicate of
\* none kept before it
RECURSIVE WalkKeeps(_, _, _)
WalkKeeps(r, kept, beam_width) ==
    IF r >= Cardinality(Viable) \/ Cardinality(kept) >= beam_width THEN kept
    ELSE WalkKeeps(r + 1,
                   IF \A e \in kept : ~NearDuplicates(AtRank(r), e)
                   THEN kept \cup {AtRank(r)} ELSE kept,
                   beam_width)

\* C15: under Diverse with beam_width >= 1 and n children of the cursor not
\* Failed, select_path selects min(beam_width, n) distinct thoughts: the ones
\* the descending-score diversity walk keeps, then, if those are fewer, the
\* highest-scored of the others.
DiverseWalkThenBackfill ==
    [][(TreeExists /\ GetTree.strategy = "diverse" /\ StrategyCall
          /\ result'.beam_width >= 1 /\ Viable # {}) =>
          \E m \in {Min(result'.beam_width, Cardinality(Viable))},
             kept \in {WalkKeeps(0, {}, result'.beam_width)} :
             /\ result'.kind = "ok"
             /\ Len(result'.selected) = m
             /\ Cardinality(Range(result'.selected)) = m
             /\ result'.selected =
                    InOrder(kept) \o SubSeq(InOrder(Viable \ kept), 1,
                                            m - Cardinality(kept))
             /\ Cursor' = result'.selected[1]
             /\ \A i \in DOMAIN Thoughts :
                   Thoughts'[i].status =
                       IF i \in Range(result'.selected) THEN SELECTED
                       ELSE Thoughts[i].status]_vars

\* Diverse has filled the selection up with a near duplicate of the best
\* child, behind a lower-scored child the walk had kept
BackfilledDuplicate ==
    /\ TreeExists
    /\ GetTree.strategy = "diverse"
    /\ Returned("select_path", "ok")
    /\ result.arg = NoId
    /\ result.beam_width = 3
    /\ Len(result.selected) = 3
    /\ NearDuplicates(result.selected[1], result.selected[3])
    /\ ~NearDuplicates(result.selected[1], result.selected[2])
    /\ Thoughts[result.selected[3]].total_score >
          Thoughts[result.selected[2]].total_score

\* C16: whenever the cursor has a child that is not Failed, select_path
\* without thought_id returns a selection that is not empty and moves the
\* cursor to its first element, whatever the strategy and the beam_width; it
\* never ends in a fault.
SelectNeverFaults ==
    [][(TreeExists /\ StrategyCall /\ Viable # {}) =>
          /\ result'.kind = "ok"
          /\ result'.selected # <<>>
          /\ Cursor' = result'.selected[1]]_vars

\* C17: select_path with a thought_id goes past the strategy: an id of the
\* tree is selected and becomes the cursor whatever the children of the
\* cursor are, an id not in the tree gives NotFound and changes nothing.
ExplicitIdBypasses ==
    [][(TreeExists /\ steps' # steps /\ result'.op = "select_path"
          /\ result'.arg # NoId) =>
          IF result'.arg \in DOMAIN Thoughts
          THEN /\ result'.kind = "ok"
               /\ result'.selected = <<result'.arg>>
               /\ Cursor' = result'.arg
               /\ \A i \in DOMAIN Thoughts :
                     Thoughts'[i].status =
                         IF i = result'.arg THEN SELECTED
                         ELSE Thoughts[i].status
          ELSE /\ result'.kind = "thought_not_found"
               /\ GetTree' = GetTree
               /\ disk' = disk]_vars

\* C18: a tree created with a strategy name that is none of greedy, beam,
\* diverse, sampling behaves as Greedy: select_path selects one thought, the
\* highest-scored child of the cursor that is not Failed, whatever the
\* beam_width.
UnknownStrategyIsGreedy ==
    [][(TreeExists /\ GetTree.strategy \notin Strategies /\ StrategyCall
          /\ Viable # {}) =>
          /\ result'.kind = "ok"
          /\ result'.selected = <<AtRank(0)>>
          /\ Cursor' = AtRank(0)
          /\ \A i \in DOMAIN Thoughts :
                Thoughts'[i].status =
                    IF i = AtRank(0) THEN SELECTED ELSE Thoughts[i].status]_vars

\* C19: create_tree with max_depth < 1 returns an InvalidArgument error and
\* creates no tree: the cache and the records (which list_trees enumerates)
\* stay as they were.
CreateRejectsDepthBelowOne ==
    [][(steps' # steps /\ result'.op = "create_tree" /\ result'.arg < 1) =>
          /\ result'.kind = "invalid"
          /\ cache' = cache
          /\ disk' = disk]_vars

\* what the pruning rule makes of one evaluation: v holds the bound, the
\* status of every thought and the thoughts pruned so far in the call
Ruled(v, ev) ==
    IF ev.thought_id \notin DOMAIN Thoughts THEN v
    ELSE LET total == CalculateWeightedScore(ev.scores, GetTree.criteria_weights)
             best == IF total > v.best THEN total ELSE v.best
             prune == /\ best > 0
                      /\ 10 * total < best * (5 + Thoughts[ev.thought_id].depth)
         IN [best |-> best,
             status |-> [v.status EXCEPT ![ev.thought_id] =
                            IF prune THEN FAILED ELSE Classify(ev.scores, total)],
             pruned |-> IF prune THEN v.pruned \cup {ev.thought_id} ELSE v.pruned]

\* the rule applied to the evaluations in order
RECURSIVE RuledAll(_, _)
RuledAll(v, evaluations) ==
    IF evaluations = <<>> THEN v
    ELSE RuledAll(Ruled(v, Head(evaluations)), Tail(evaluations))

PrunedNow(i) ==
    /\ "pruned" \notin DOMAIN Thoughts[i].metadata
    /\ "pruned" \in DOMAIN Thoughts'[i].metadata

\* C21: the pruning tolerance grows with the depth: when one call evaluates
\* a thought at depth 0 and a thought at depth 3 with the same scores (so
\* with the same total_score, judged against the same best_score_seen) and
\* the thought at depth 3 is pruned, the thought at depth 0 is pruned too.
PruneToleranceGrows ==
    [][(steps' # steps /\ result'.op = "evaluate_thoughts"
          /\ Len(result'.arg) = 2) =>
          \A p, q \in 1..2 :
             LET shallow == result'.arg[p]
                 deep == result'.arg[q]
             IN (/\ Thoughts[shallow.thought_id].depth = 0
                 /\ Thoughts[deep.thought_id].depth = 3
                 /\ shallow.scores = deep.scores
                 /\ Thoughts'[shallow.thought_id].total_score =
                       Thoughts'[deep.thought_id].total_score
                 /\ "pruned" \notin DOMAIN Thoughts[shallow.thought_id].metadata
                 /\ PrunedNow(deep.thought_id))
                => PrunedNow(shallow.thought_id)]_vars

\* the call that has returned did not prune thought i: it carries no pruning
\* mark, or the call had one entry and its total is not below the threshold
NotPrunedNow(i) ==
    \/ "pruned" \notin DOMAIN Thoughts'[i].metadata
    \/ /\ Len(result'.arg) = 1
       /\ ~(Best' > 0 /\ 10 * Thoughts'[i].total_score
                            < Best' * (5 + Thoughts'[i].depth))

\* the status the three tiers give to a total (times Scale) and the scores
Tier(total, scores) ==
    LET lowest == IF DOMAIN scores = {} THEN 0 ELSE SetMin(Range(scores))
    IN IF total >= 7 * Scale /\ lowest >= 5 THEN PROMISING
       ELSE IF total >= 5 * Scale /\ lowest >= 3 THEN UNCERTAIN
       ELSE FAILED

\* C22: a thought that is evaluated and not pruned is Promising iff
\* total_score >= 7 and its lowest score >= 5, otherwise Uncertain iff
\* total_score >= 5 and its lowest score >= 3, otherwise Failed.  On a tree
\* with no evaluation yet and the default weights, A = (8, 8) evaluated
\* before B = (9, 2), both at depth 1, leaves A Promising, B Failed and
\* best_score_seen 8.0.
ThreeTiers ==
    [][(TreeExists /\ steps' # steps /\ result'.op = "evaluate_thoughts") =>
          /\ \A k \in DOMAIN result'.arg :
                LET i == result'.arg[k].thought_id
                IN (i \in DOMAIN Thoughts /\ NotPrunedNow(i)) =>
                      Thoughts'[i].status =
                          Tier(Thoughts'[i].total_score, Thoughts'[i].scores)
          /\ \A a, b \in DOMAIN Thoughts :
                (/\ a # b
                 /\ Thoughts[a].depth = 1 /\ Thoughts[b].depth = 1
                 /\ Best = 0
                 /\ \A c \in DOMAIN GetTree.criteria_weights :
                       GetTree.criteria_weights[c] = One
                 /\ result'.arg =
                       << [thought_id |-> a,
                           scores |-> [feasibility |-> 8, risk |-> 8]],
                          [thought_id |-> b,
                           scores |-> [feasibility |-> 9, risk |-> 2]] >>)
                => /\ Thoughts'[a].status = PROMISING
                   /\ Thoughts'[b].status = FAILED
                   /\ Best' = 8 * Scale]_vars

\* A = (8, 8) and B = (9, 2) were evaluated in this order on thoughts at
\* depth 1: B has the mean 5.5, is not pruned, and fails on its lowest score
FailedOnLowestScore ==
    /\ TreeExists
    /\ Returned("evaluate_thoughts", "ok")
    /\ steps = MaxSteps
    /\ Len(result.arg) = 2
    /\ result.arg[1].scores = [feasibility |-> 8, risk |-> 8]
    /\ result.arg[2].scores = [feasibility |-> 9, risk |-> 2]
    /\ LET a == result.arg[1].thought_id
           b == result.arg[2].thought_id
       IN /\ a \in DOMAIN Thoughts /\ b \in DOMAIN Thoughts /\ a # b
          /\ Thoughts[a].depth = 1 /\ Thoughts[b].depth = 1
          /\ Thoughts[a].status = PROMISING
          /\ Thoughts[b].status = FAILED
          /\ 2 * Thoughts[b].total_score = 11 * Scale
          /\ "pruned" \notin DOMAIN Thoughts[b].metadata
          /\ Best = 8 * Scale

\* the thoughts without children
Leaves == {i \in DOMAIN Thoughts : Thoughts[i].children = <<>>}

\* total_score plus the bonus of the status, times Scale
Effective(i) ==
    Thoughts[i].total_score
        + Scale * (CASE Thoughts[i].status = COMPLETE -> 100
                     [] Thoughts[i].status = PROMISING -> 50
                     [] Thoughts[i].status = SELECTED -> 25
                     [] Thoughts[i].status = UNCERTAIN -> 10
                     [] Thoughts[i].status = PENDING -> 0
                     [] Thoughts[i].status = FAILED -> -100)

\* the first leaf, in the order of the thoughts, of the highest
\* effective score
FirstBestLeaf(leaf) ==
    /\ leaf \in Leaves
    /\ \A other \in Leaves :
          /\ Effective(other) <= Effective(leaf)
          /\ Effective(other) = Effective(leaf) => leaf <= other

\* path leads from the root to leaf, each thought the parent of the next
RootToLeaf(path, leaf) ==
    /\ path # <<>>
    /\ path[1] = GetTree.root_id
    /\ path[Len(path)] = leaf
    /\ \A n \in 1..(Len(path) - 1) : Thoughts[path[n + 1]].parent_id = path[n]

GetBestPathCall ==
    TreeExists /\ steps' # steps /\ result'.op = "get_best_path"

\* C23: get_best_path returns the path of the leaf with the highest
\* effective_score = total_score + status bonus (Complete 100, Promising 50,
\* Selected 25, Uncertain 10, Pending 0, Failed -100), the first such leaf
\* in iteration order on ties; the path starts at the root, ends at that
\* leaf, and each element is the parent of the next.
BestPathIsBestLeaf ==
    [][GetBestPathCall =>
          \E leaf \in Leaves :
             /\ FirstBestLeaf(leaf)
             /\ result'.kind = "ok"
             /\ RootToLeaf(result'.path, leaf)]_vars

\* C24: get_best_path signals that there is no complete path only when the
\* tree has no leaf: whenever some thought has no children, also when every
\* such thought is Failed, it returns a path.
PathUnlessNoLeaf ==
    [][(GetBestPathCall /\ Leaves # {}) => result'.kind = "ok"]_vars

\* the operations that change a tree
Mutating ==
    {"create_tree", "generate_thoughts", "evaluate_thoughts", "select_path",
     "expand_thought", "backtrack", "set_criteria_weights"}

\* C25: a mutating operation whose durable write fails does not report
\* success: when the write of _save_tree fails during create_tree,
\* generate_thoughts, evaluate_thoughts, select_path, expand_thought,
\* backtrack or set_criteria_weights, the caller does not receive the normal
\* response (every normal response follows a call of _save_tree).
WriteFailureReported ==
    [][(steps' # steps /\ fault # "none" /\ result'.op \in Mutating)
          => result'.kind # "ok"]_vars

\* C26: every operation that changes the in-memory state of a tree ends with
\* a durable write: when no write fails, after each operation has returned,
\* the record of a cached tree is the record of its cached state.
CacheIsPersisted ==
    TreeId \in DOMAIN cache =>
        /\ TreeId \in DOMAIN disk
        /\ disk[TreeId] = TreeToDict(cache[TreeId])

\* C27: the cached tree is never ahead of the persisted record by more than
\* the effect of one operation, and a crash loses at most the changes of
\* the most recent operation: after a call that changes the tree the record
\* holds the tree as it was before the call or as it is after it, and after
\* a crash the tree is still found.
CacheAheadByOne ==
    [][(TreeExists /\ steps' # steps) =>
          /\ (TreeId \in DOMAIN cache' /\ cache'[TreeId] # GetTree) =>
                /\ TreeId \in DOMAIN disk'
                /\ Loadable(disk'[TreeId])
                /\ DictToTree(disk'[TreeId]) \in {GetTree, cache'[TreeId]}
          /\ (result'.op = "restart" => (TreeExists)')]_vars

\* C28: writes of a record are atomic: whoever reads the file of a tree
\* finds the complete record that was there before the write or the
\* complete record of the tree being saved, never an empty or a partial one.
AtomicWrites ==
    [][(TreeId \in DOMAIN disk') =>
          /\ Loadable(disk'[TreeId])
          /\ \/ (TreeId \in DOMAIN disk /\ disk'[TreeId] = disk[TreeId])
             \/ (TreeId \in DOMAIN cache'
                  /\ disk'[TreeId] = TreeToDict(cache'[TreeId]))]_vars

\* the tree is neither cached nor on disk
Gone == TreeId \notin DOMAIN cache /\ TreeId \notin DOMAIN disk

\* C29: after delete_tree has reported success the tree is gone from the
\* cache and from durable storage; from then on it stays gone, every
\* operation on its tree_id returns NotFound and list_trees does not list
\* it, also after a restart.
DeleteIsFinal ==
    [][/\ (steps' # steps /\ result'.op = "delete_tree"
             /\ result'.kind = "ok") => Gone'
       /\ Gone =>
             /\ Gone'
             /\ steps' # steps =>
                   \/ result'.op \in TreeOperations
                        /\ result'.kind = "tree_not_found"
                   \/ result'.op = "list_trees" /\ result'.trees = {}
                   \/ result'.op = "restart"]_vars

\* the tree was deleted and a later call on its tree_id has returned
\* NotFound
NotFoundAfterDelete ==
    /\ Gone
    /\ steps = MaxSteps
    /\ result.op \in TreeOperations
    /\ result.kind = "tree_not_found"

\* an entry of the request names no criterion of the tree or gives a weight
\* outside [0.0, 1.0] (weights are in halves)
BadEntry(weights, c) ==
    \/ \A n \in DOMAIN GetTree.criteria : GetTree.criteria[n] # c
    \/ weights[c] < 0
    \/ weights[c] > 2

\* C30: set_criteria_weights returns an error and leaves the tree, its
\* criteria_weights included, unchanged if any key of the request is not a
\* criterion of the tree or any value is outside [0.0, 1.0], also when
\* other entries of the request are valid; otherwise it sets the weights of
\* the criteria given and keeps the weight of every other criterion and the
\* rest of the tree.
WeightsValidated ==
    [][(TreeExists /\ steps' # steps /\ result'.op = "set_criteria_weights") =>
          \E weights \in {result'.arg} :
             IF \E c \in DOMAIN weights : BadEntry(weights, c)
             THEN /\ result'.kind = "invalid"
                  /\ GetTree' = GetTree
                  /\ disk' = disk
             ELSE /\ result'.kind = "ok"
                  /\ DOMAIN GetTree'.criteria_weights =
                        DOMAIN GetTree.criteria_weights
                  /\ \A c \in DOMAIN GetTree.criteria_weights :
                        GetTree'.criteria_weights[c] =
                            IF c \in DOMAIN weights THEN weights[c]
                            ELSE GetTree.criteria_weights[c]
                  /\ [GetTree' EXCEPT !.criteria_weights =
                                         GetTree.criteria_weights] = GetTree
                  /\ disk'[TreeId] = TreeToDict(GetTree')]_vars

\* a request with an acceptable weight for feasibility and a bad entry was
\* refused, and the weight of feasibility is not the one requested
MixedRequestRefused ==
    /\ TreeExists
    /\ Returned("set_criteria_weights", "invalid")
    /\ "feasibility" \in DOMAIN result.arg
    /\ result.arg.feasibility = 1
    /\ GetTree.criteria_weights.feasibility # 1
    /\ \E c \in DOMAIN result.arg : BadEntry(result.arg, c)

\* entry k of the batch is the last one of its thought
LastOfThought(evaluations, k) ==
    \A later \in DOMAIN evaluations :
       later > k => evaluations[later].thought_id # evaluations[k].thought_id

\* the weight (in halves) the tree has for a criterion, 1.0 if it has none
WeightOf(c) ==
    IF c \in DOMAIN GetTree.criteria_weights THEN GetTree.criteria_weights[c]
    ELSE 2

\* total (times Scale) is the mean of the scores weighted by the weights of
\* the tree before the call
IsWeightedMean(total, scores) ==
    LET D == DOMAIN scores
        total_weight == SumOver([c \in D |-> WeightOf(c)], D)
        weighted_sum == SumOver([c \in D |-> scores[c] * WeightOf(c)], D)
    IN IF D = {} THEN total = 0
       ELSE IF DOMAIN GetTree.criteria_weights = {}
       THEN total * Cardinality(D) = Scale * SumOver(scores, D)
       ELSE total_weight > 0 => total * total_weight = Scale * weighted_sum

\* C31: the total_score evaluate_thoughts sets is sum(score_i * weight_i) /
\* sum(weight_i) over the submitted criteria, with the weights of the tree;
\* it is the unweighted mean when the tree has no weights, and 0.0 when the
\* submitted scores are empty.
TotalIsWeightedMean ==
    [][(TreeExists /\ steps' # steps /\ result'.op = "evaluate_thoughts") =>
          \A k \in DOMAIN result'.arg :
             LET ev == result'.arg[k]
             IN (ev.thought_id \in DOMAIN Thoughts
                   /\ LastOfThought(result'.arg, k)) =>
                   /\ Thoughts'[ev.thought_id].scores = ev.scores
                   /\ IsWeightedMean(Thoughts'[ev.thought_id].total_score,
                                     ev.scores)]_vars

\* feasibility 9 and risk 2 were weighed 0.5 and 1.0: the total is 13/3
WeighedUnequally ==
    /\ TreeExists
    /\ Returned("evaluate_thoughts", "ok")
    /\ GetTree.criteria_weights = [feasibility |-> 1, risk |-> 2]
    /\ \E k \in DOMAIN result.arg :
          /\ result.arg[k].scores = [feasibility |-> 9, risk |-> 2]
          /\ result.arg[k].thought_id \in DOMAIN Thoughts
          /\ LastOfThought(result.arg, k)
          /\ 3 * Thoughts[result.arg[k].thought_id].total_score = 13 * Scale

\* C32: a tree survives a restart: after operations whose writes went
\* through, the tree loaded from its record once the cache is dropped is
\* equal in every field to the tree that was in memory.
RestartKeepsTree ==
    [][(steps' # steps /\ result'.op = "restart" /\ TreeId \in DOMAIN cache) =>
          /\ (TreeExists)'
          /\ GetTree' = cache[TreeId]]_vars

\* thought i has the parent, the children in their order and the depth it
\* had before the call
SameLinks(i) ==
    /\ Thoughts'[i].parent_id = Thoughts[i].parent_id
    /\ Thoughts'[i].children = Thoughts[i].children
    /\ Thoughts'[i].depth = Thoughts[i].depth

\* C33: only generate_thoughts changes the shape of a tree: it adds each
\* new thought as a Pending child of the cursor of the time of the call, at
\* the end of the children of the cursor and in the order given; no other
\* operation adds or removes a thought or changes the parent, the children
\* order or the depth of a thought.
OnlyGenerateShapes ==
    [][(TreeExists /\ steps' # steps) =>
          \E n \in {Len(Thoughts)} :
             IF result'.op = "generate_thoughts"
             THEN \E items \in {result'.arg} :
                     /\ Len(Thoughts') = n + Len(items)
                     /\ Cursor' = Cursor
                     /\ \A j \in 1..Len(items) :
                           /\ Thoughts'[n + j].content = items[j]
                           /\ Thoughts'[n + j].status = PENDING
                           /\ Thoughts'[n + j].parent_id = Cursor
                           /\ Thoughts'[n + j].children = <<>>
                     /\ Thoughts'[Cursor].children =
                           Thoughts[Cursor].children
                               \o [j \in 1..Len(items) |-> n + j]
                     /\ \A i \in 1..n :
                           /\ Thoughts'[i].parent_id = Thoughts[i].parent_id
                           /\ Thoughts'[i].depth = Thoughts[i].depth
                           /\ i # Cursor => SameLinks(i)
             ELSE /\ Len(Thoughts') = n
                  /\ \A i \in 1..n : SameLinks(i)]_vars

\* two different thoughts were generated in one call under a thought that
\* is not the root and had no children
GeneratedTwoBelow ==
    /\ TreeExists
    /\ Returned("generate_thoughts", "ok")
    /\ steps > MaxSteps - 4
    /\ Len(result.arg) = 2
    /\ result.arg[1] # result.arg[2]
    /\ Cursor # GetTree.root_id
    /\ Len(Thoughts[Cursor].children) = 2
    /\ \A j \in 1..2 :
          Thoughts[Thoughts[Cursor].children[j]].content = result.arg[j]

\* C34: after a backtrack from a thought T that is not the root, the
\* alternatives returned are exactly the children of the parent of T that
\* are not T and are not Failed, each once, in descending order of
\* total_score; T is not among them.
BacktrackAlternatives ==
    [][(TreeExists /\ steps' # steps /\ Returned("backtrack", "ok")') =>
          \E T \in {Cursor} :
             \E alternatives \in {result'.alternatives} :
                /\ Range(alternatives) =
                      {c \in Range(Thoughts[Thoughts[T].parent_id].children) :
                          c # T /\ Thoughts'[c].status # FAILED}
                /\ Len(alternatives) = Cardinality(Range(alternatives))
                /\ T \notin Range(alternatives)
                /\ \A i, j \in DOMAIN alternatives :
                      i < j => Thoughts'[alternatives[i]].total_score >=
                                  Thoughts'[alternatives[j]].total_score]_vars

\* two alternatives were returned, the later child first because of its
\* higher score
AlternativesRanked ==
    /\ TreeExists
    /\ Returned("backtrack", "ok")
    /\ Len(result.alternatives) = 2
    /\ result.alternatives[1] > result.alternatives[2]
    /\ Thoughts[result.alternatives[1]].total_score >
          Thoughts[result.alternatives[2]].total_score

\* C35: max_depth is a ceiling on the search: no thought of the tree is
\* deeper than the tree's max_depth, and so the cursor is not either.
DepthWithinMax ==
    TreeExists =>
       /\ \A i \in DOMAIN Thoughts : Thoughts[i].depth <= GetTree.max_depth
       /\ Thoughts[Cursor].depth <= GetTree.max_depth

\* C36: the cursor never rests on a Failed thought: after every operation
\* the thought the cursor refers to has a status other than Failed.
CursorNotFailed ==
    TreeExists => Thoughts[Cursor].status # FAILED

\* C37: the best thought is not pruned by its own bound: a thought whose
\* total_score is positive and equals best_score_seen right after its
\* evaluation is not marked Failed by the pruning test, whatever its depth.
BestNotPruned ==
    [][(TreeExists /\ steps' # steps /\ result'.op = "evaluate_thoughts"
          /\ Len(result'.arg) = 1) =>
          \A i \in {result'.arg[1].thought_id} :
             (/\ Thoughts'[i].total_score > 0
              /\ Thoughts'[i].total_score = Best')
                => ~PrunedNow(i)]_vars

\* C38: a batch is evaluated as its entries would be one call after the
\* other: when evaluate_thoughts(b1) was the first call on a tree without
\* evaluations and evaluate_thoughts(b2) follows, the tree (scores,
\* total_score, status and metadata of every thought, best_score_seen) and
\* its record are those that the single call evaluate_thoughts(b1 + b2)
\* leaves on the tree without evaluations; a thought is so judged against
\* the best score of the entries before it and not of those after it.
BatchIsSequential ==
    [][(/\ TreeExists /\ steps' # steps
        /\ Returned("evaluate_thoughts", "ok")
        /\ steps = (MaxSteps - 3) + Len(result.arg)
        /\ result'.op = "evaluate_thoughts") =>
          \E batch \in {EvaluateAll(Unevaluated(Len(Thoughts) - 1),
                                    result.arg \o result'.arg)} :
             /\ GetTree' = batch
             /\ cache'.t1 = batch
             /\ disk'.t1 = TreeToDict(batch)]_vars

\* two calls have returned; the first thought was judged Uncertain with
\* total_score 5.0 by the first, before the second raised best_score_seen to
\* 9.0, under which it would have been pruned
JudgedBeforeLaterBest ==
    /\ TreeExists
    /\ Returned("evaluate_thoughts", "ok")
    /\ steps = (MaxSteps - 3) + 2
    /\ Len(result.arg) = 1
    /\ Thoughts[2].status = UNCERTAIN
    /\ Thoughts[2].total_score = 5 * Scale
    /\ Best = 9 * Scale

\* C39: backtracking exhausts the tree: a backtrack call made while the
\* cursor is at depth d > 0 moves the cursor to the parent, at depth d - 1,
\* and changes the depth of no thought, so d calls in a row bring the cursor
\* to the root; a backtrack call made while the cursor is at depth 0 returns
\* the signal that there is no further way back and leaves the cursor there.
BacktrackExhausts ==
    [][(TreeExists /\ steps' # steps /\ result'.op = "backtrack") =>
          \E d \in {Thoughts[Cursor].depth} :
             /\ \A i \in DOMAIN Thoughts : Thoughts'[i].depth = Thoughts[i].depth
             /\ IF d = 0
                THEN /\ result'.kind = "at_root"
                     /\ Cursor = GetTree.root_id
                     /\ Cursor' = Cursor
                ELSE /\ result'.kind = "ok"
                     /\ Cursor' = Thoughts[Cursor].parent_id
                     /\ Thoughts'[Cursor'].depth = d - 1]_vars

\* four calls in a row have taken the cursor from depth 3 to the root and
\* found no further way back: every thought of the path carries the reason
\* of its backtrack
ExhaustedFromDepthThree ==
    /\ TreeExists
    /\ Returned("backtrack", "at_root")
    /\ Cursor = GetTree.root_id
    /\ Len(Thoughts) = 4
    /\ \E i \in DOMAIN Thoughts : Thoughts[i].depth = 3
    /\ \A i \in DOMAIN Thoughts :
          /\ Thoughts[i].status = FAILED
          /\ "failure_reason" \in DOMAIN Thoughts[i].metadata

\* the cursor has no child that is not Failed
NoViableChild ==
    \A c \in Range(Thoughts[Cursor].children) : Thoughts[c].status = FAILED

\* C40: select_path without thought_id, called while the cursor has no
\* child or only Failed children, returns the signal that there is no
\* viable candidate and leaves the tree as it was: the cursor, the status
\* and every other field of every thought, the cached tree and the record
\* (a tree that was not in the cache is loaded into it as its record gives
\* it).
NoCandidatesChangesNothing ==
    [][(/\ TreeExists /\ steps' # steps
        /\ result'.op = "select_path" /\ result'.arg = NoId
        /\ NoViableChild) =>
          /\ result'.kind = "no_candidates"
          /\ (TreeExists)'
          /\ GetTree' = GetTree
          /\ Cursor' = Cursor
          /\ \A i \in DOMAIN Thoughts : Thoughts'[i].status = Thoughts[i].status
          /\ (TreeId \in DOMAIN cache => cache' = cache)
          /\ cache' = [t1 |-> GetTree]
          /\ disk' = disk]_vars

\* the signal was returned at a cursor all of whose children, more than one,
\* are Failed
AllChildrenFailed ==
    /\ TreeExists
    /\ Returned("select_path", "no_candidates")
    /\ result.arg = NoId
    /\ Len(Thoughts[Cursor].children) > 1
    /\ NoViableChild
====
